---- MODULE Spec2Model ----
(***************************************************************************)
(* A model of the three demonstration pipelines of the repository:         *)
(*   - the payment lifecycle            (src/unnamed/part_001)             *)
(*   - the order pipeline               (src/unnamed/part_000,             *)
(*                                       src/desafio03/index01.js)         *)
(*   - the order-with-items pipeline    (src/desafio03/index03.js)         *)
(* The pipelines share no code; each has its own specification over the    *)
(* variables it owns (SpecPayment, SpecOrders, SpecItems), and             *)
(* SpecValidators applies the three validate methods to drawn orders.      *)
(***************************************************************************)
EXTENDS Integers, Sequences, FiniteSets

VARIABLES
    status,         \* part_001: Payment.status of each payment object
    processedAt,    \* part_001: Payment.processedAt of each payment object
    payments,       \* part_001: PaymentProcessor.payments (history)
    now,            \* part_001: the clock new Date() reads
    pc,             \* part_001: position inside PaymentProcessor.processPayment
    validatorKind,  \* part_000: class of OrderService.validator
    repositoryKind, \* part_000: class of OrderService.repository
    orders,         \* part_000: OrderRepository.orders
    console,        \* part_000: ids written by DatabaseOrderRepository.save
    order,          \* index03: the Order object under construction
    call,           \* the most recent call made on a pipeline and its arguments
    outcome         \* what that call returned, or the error it threw

vars == <<status, processedAt, payments, now, pc, validatorKind, repositoryKind,
          orders, console, order, call, outcome>>

paymentVars == <<status, processedAt, payments, now, pc>>
orderVars == <<validatorKind, repositoryKind, orders, console>>
notPaymentVars == <<orderVars, order, call, outcome>>

\* JavaScript's null / undefined for a field holding a value: the empty option.
null == <<>>

\* A call that has not been made, and a call's return when nothing was returned.
noCall == [op |-> "none"]
noOutcome == [error |-> "", value |-> null]

\* The order-with-items pipeline before any order is created.
noOrder == [id |-> "", customerName |-> "", items |-> <<>>, status |-> "none"]

(***************************************************************************)
(* Payment pipeline (src/unnamed/part_001)                                 *)
(***************************************************************************)

\* Bounds of the payment model.
MaxClock == 2
MaxHistory == 2

\* One object per class: new Payment(..), new CreditCardPayment(..),
\* new PixPayment(..).
Payments == {"payment", "creditPayment", "pixPayment"}

PaymentClass(p) ==
    CASE p = "creditPayment" -> "CreditCardPayment"
      [] p = "pixPayment" -> "PixPayment"
      [] OTHER -> "Payment"

\* new Date().toISOString(): the reading of the clock, as a defined value.
toISOString(t) == <<t>>

\* Payment.process: this.status = 'processing'.
Payment_process(p) ==
    /\ status' = [status EXCEPT ![p] = "processing"]
    /\ UNCHANGED processedAt

\* Payment.complete: this.status = 'completed'; this.processedAt = now.
Payment_complete(p) ==
    /\ status' = [status EXCEPT ![p] = "completed"]
    /\ processedAt' = [processedAt EXCEPT ![p] = toISOString(now)]

\* CreditCardPayment / PixPayment override process and complete by calling
\* super and returning this.
process(p) ==
    CASE PaymentClass(p) = "CreditCardPayment" -> Payment_process(p)
      [] PaymentClass(p) = "PixPayment" -> Payment_process(p)
      [] OTHER -> Payment_process(p)

complete(p) ==
    CASE PaymentClass(p) = "CreditCardPayment" -> Payment_complete(p)
      [] PaymentClass(p) = "PixPayment" -> Payment_complete(p)
      [] OTHER -> Payment_complete(p)

idle == [at |-> "idle", p |-> "none"]

\* new Payment(...): status 'pending', processedAt null; new PaymentProcessor().
InitPayment ==
    /\ status = [p \in Payments |-> "pending"]
    /\ processedAt = [p \in Payments |-> null]
    /\ payments = <<>>
    /\ now = 0
    /\ pc = idle
    /\ validatorKind = "OrderValidator"
    /\ repositoryKind = "OrderRepository"
    /\ orders = <<>>
    /\ console = <<>>
    /\ order = noOrder
    /\ call = noCall
    /\ outcome = noOutcome

\* Time passes between (and during) calls.
Tick ==
    /\ now < MaxClock
    /\ now' = now + 1
    /\ UNCHANGED <<status, processedAt, payments, pc>>
    /\ UNCHANGED notPaymentVars

\* A caller invokes payment.process().
Process(p) ==
    /\ pc = idle
    /\ process(p)
    /\ UNCHANGED <<payments, now, pc>>
    /\ UNCHANGED notPaymentVars

\* A caller invokes payment.complete().
Complete(p) ==
    /\ pc = idle
    /\ complete(p)
    /\ UNCHANGED <<payments, now, pc>>
    /\ UNCHANGED notPaymentVars

\* PaymentProcessor.processPayment, first statement: payment.process().
\* The method runs to its end before any other call: only ProcessPaymentEnd
\* (and the clock) can follow.
ProcessPayment(p) ==
    /\ pc = idle
    /\ Len(payments) < MaxHistory
    /\ process(p)
    /\ pc' = [at |-> "complete", p |-> p]
    /\ UNCHANGED <<payments, now>>
    /\ UNCHANGED notPaymentVars

\* PaymentProcessor.processPayment, the rest: payment.complete();
\* this.payments.push(payment); return payment.
ProcessPaymentEnd ==
    /\ pc.at = "complete"
    /\ complete(pc.p)
    /\ payments' = Append(payments, pc.p)
    /\ pc' = idle
    /\ UNCHANGED now
    /\ UNCHANGED notPaymentVars

ProcessAny == \E p \in Payments : Process(p)
CompleteAny == \E p \in Payments : Complete(p)
ProcessPaymentAny == \E p \in Payments : ProcessPayment(p)

NextPayment ==
    \/ Tick
    \/ ProcessAny
    \/ CompleteAny
    \/ ProcessPaymentAny
    \/ ProcessPaymentEnd

SpecPayment == InitPayment /\ [][NextPayment]_vars

(***************************************************************************)
(* Order pipeline (src/unnamed/part_000; src/desafio03/index01.js holds    *)
(* the same Order, OrderValidator, OrderRepository and OrderService)       *)
(***************************************************************************)

\* Bound of the order model: createOrder calls that reach save.
MaxOrders == 2

\* The ceiling of StrictOrderValidator.
MAX_TOTAL == 10000

\* The absent value of a string argument (undefined); no string of the model
\* is spelled like it.
undefined == "<undefined>"

\* A validator's verdict is the message of the Error it throws, or ok for
\* `return true`; a call's error is the message thrown, or ok.
ok == ""

\* JavaScript's !v for a string-or-undefined v.
Falsy(v) == v = undefined \/ v = ""

\* An items argument: a JavaScript array of product names, or a value that
\* is no array (undefined).
Array(elems) == [isArray |-> TRUE, elems |-> elems]
notAnArray == [isArray |-> FALSE, elems |-> <<>>]

\* The arguments the callers of createOrder and getOrder draw from.
Ids == {"", "ORD-001", "ORD-002"}
CustomerNames == {"", "Ana Lima"}
ItemLists == {Array(<<>>), Array(<<"Produto A">>)}
Totals == {0, 150, MAX_TOTAL + 1}

ValidatorKinds == {"OrderValidator", "StrictOrderValidator"}
RepositoryKinds == {"OrderRepository", "DatabaseOrderRepository"}

\* new Order(id, customerName, items, total).
Order(id, customerName, items, total) ==
    [id |-> id, customerName |-> customerName, items |-> items, total |-> total,
     status |-> "pending"]

\* Mutant of OrderValidator.validate: the total check written `< 0`.
OrderValidator_validate_ZeroAccepted(o) ==
    IF Falsy(o.id) \/ Falsy(o.customerName)
    THEN "Order must have id and customer name"
    ELSE IF ~o.items.isArray \/ Len(o.items.elems) = 0
    THEN "Order must have at least one item"
    ELSE IF o.total < 0
    THEN "Order total must be greater than zero"
    ELSE ok

\* OrderValidator.validate.
OrderValidator_validate(o) ==
    IF Falsy(o.id) \/ Falsy(o.customerName)
    THEN "Order must have id and customer name"
    ELSE IF ~o.items.isArray \/ Len(o.items.elems) = 0
    THEN "Order must have at least one item"
    ELSE IF o.total <= 0
    THEN "Order total must be greater than zero"
    ELSE ok

\* Mutant of StrictOrderValidator.validate: the ceiling written `>=`.
StrictOrderValidator_validate_AtCeiling(o) ==
    IF OrderValidator_validate(o) # ok
    THEN OrderValidator_validate(o)
    ELSE IF o.total >= MAX_TOTAL
    THEN "Order total exceeds maximum allowed value"
    ELSE ok

\* StrictOrderValidator.validate: super.validate(order), then the ceiling.
StrictOrderValidator_validate(o) ==
    IF OrderValidator_validate(o) # ok
    THEN OrderValidator_validate(o)
    ELSE IF o.total > MAX_TOTAL
    THEN "Order total exceeds maximum allowed value"
    ELSE ok

\* this.validator.validate(order), by the class of the injected validator.
validate(kind, o) ==
    IF kind = "StrictOrderValidator"
    THEN StrictOrderValidator_validate(o)
    ELSE OrderValidator_validate(o)

\* OrderRepository.save: this.orders.push(order).
OrderRepository_save(os, o) == Append(os, o)

\* OrderRepository.findById: this.orders.find(o => o.id === id), the first
\* match or undefined.
findById(os, id) ==
    LET hits == {i \in 1..Len(os) : os[i].id = id}
    IN IF hits = {} THEN null
       ELSE <<os[CHOOSE i \in hits : \A j \in hits : i <= j]>>

\* OrderRepository.findAll.
findAll(os) == os

\* this.repository.save(order), by the class of the injected repository:
\* DatabaseOrderRepository logs the id, then calls super.save.
save(o) ==
    /\ orders' = OrderRepository_save(orders, o)
    /\ console' = IF repositoryKind = "DatabaseOrderRepository"
                  THEN Append(console, o.id)
                  ELSE console

notOrderVars == <<paymentVars, order>>

\* Mutant of OrderService.createOrder: save called before validate.
OrderService_createOrder_SaveFirst(id, customerName, items, total) ==
    LET o == Order(id, customerName, items, total)
        e == validate(validatorKind, o)
    IN /\ call' = [op |-> "createOrder", id |-> id, customerName |-> customerName,
                   items |-> items, total |-> total]
       /\ Len(orders) < MaxOrders
       /\ save(o)
       /\ outcome' = IF e # ok THEN [error |-> e, value |-> null]
                     ELSE [error |-> ok, value |-> <<o>>]
       /\ UNCHANGED <<validatorKind, repositoryKind>>

\* OrderService.createOrder: construct, validate (a throw ends the call),
\* save, return the saved order.
OrderService_createOrder(id, customerName, items, total) ==
    LET o == Order(id, customerName, items, total)
        e == validate(validatorKind, o)
    IN /\ call' = [op |-> "createOrder", id |-> id, customerName |-> customerName,
                   items |-> items, total |-> total]
       /\ IF e # ok
          THEN /\ outcome' = [error |-> e, value |-> null]
               /\ UNCHANGED <<orders, console>>
          ELSE /\ Len(orders) < MaxOrders
               /\ save(o)
               /\ outcome' = [error |-> ok, value |-> <<o>>]
       /\ UNCHANGED <<validatorKind, repositoryKind>>

CreateOrder ==
    /\ \E id \in Ids, customerName \in CustomerNames, items \in ItemLists,
          total \in Totals :
          OrderService_createOrder(id, customerName, items, total)
    /\ UNCHANGED notOrderVars

\* OrderService.getOrder.
GetOrder ==
    /\ \E id \in Ids :
          /\ call' = [op |-> "getOrder", id |-> id]
          /\ outcome' = [error |-> ok, value |-> findById(orders, id)]
    /\ UNCHANGED orderVars
    /\ UNCHANGED notOrderVars

\* OrderService.getAllOrders.
GetAllOrders ==
    /\ call' = [op |-> "getAllOrders"]
    /\ outcome' = [error |-> ok, value |-> findAll(orders)]
    /\ UNCHANGED orderVars
    /\ UNCHANGED notOrderVars

\* new OrderService(validator, repository) over a new, empty repository, for
\* each validator and repository class.
InitOrders ==
    /\ validatorKind \in ValidatorKinds
    /\ repositoryKind \in RepositoryKinds
    /\ orders = <<>>
    /\ console = <<>>
    /\ call = noCall
    /\ outcome = noOutcome
    /\ status = [p \in Payments |-> "pending"]
    /\ processedAt = [p \in Payments |-> null]
    /\ payments = <<>>
    /\ now = 0
    /\ pc = idle
    /\ order = noOrder

NextOrders ==
    \/ CreateOrder
    \/ GetOrder
    \/ GetAllOrders

SpecOrders == InitOrders /\ [][NextOrders]_vars

\* new OrderService(new OrderValidator(), new OrderRepository()), the only
\* service index01.js builds.
InitOrdersBasic ==
    /\ validatorKind = "OrderValidator"
    /\ repositoryKind = "OrderRepository"
    /\ orders = <<>>
    /\ console = <<>>
    /\ call = noCall
    /\ outcome = noOutcome
    /\ status = [p \in Payments |-> "pending"]
    /\ processedAt = [p \in Payments |-> null]
    /\ payments = <<>>
    /\ now = 0
    /\ pc = idle
    /\ order = noOrder

SpecOrdersBasic == InitOrdersBasic /\ [][NextOrders]_vars

\* The order the last createOrder call constructed.
CalledOrder == Order(call.id, call.customerName, call.items, call.total)

(***************************************************************************)
(* Order-with-items pipeline (src/desafio03/index03.js)                    *)
(*                                                                         *)
(* Money is an integer count of 1/10000 of a currency unit, so that a      *)
(* price in cents, its products by a quantity and the 10% and 5% of their  *)
(* sums are all exact: the model computes in decimal what the code         *)
(* computes in binary floating point.                                      *)
(***************************************************************************)

\* Bound of the items model: addItem calls on the order.
MaxItems == 3

\* The amount units.cents, e.g. Money(200, 1) for 200.01.
Money(units, cents) == units * 10000 + cents * 100

\* new Product(id, name, price): the three products of main, and one priced
\* one cent above a tier boundary.
Product(id, name, price) == [id |-> id, name |-> name, price |-> price]
Notebook == Product("PROD-001", "Notebook", Money(2500, 0))
Mouse == Product("PROD-002", "Mouse", Money(50, 0))
Teclado == Product("PROD-003", "Teclado", Money(150, 0))
Cabo == Product("PROD-004", "Cabo", Money(200, 1))
Products == {Notebook, Mouse, Teclado, Cabo}
Quantities == {0, 1, 2}

\* new OrderItem(product, quantity).
OrderItem(product, quantity) == [product |-> product, quantity |-> quantity]

\* OrderItem.getSubtotal.
OrderItem_getSubtotal(item) == item.product.price * item.quantity

\* new Order(id, customerName) of index03.js: no items, pending.
ItemsOrder(id, customerName) ==
    [id |-> id, customerName |-> customerName, items |-> <<>>, status |-> "pending"]

\* Order.addItem: this.items.push(new OrderItem(product, quantity)).
Order_addItem(o, product, quantity) ==
    [o EXCEPT !.items = Append(@, OrderItem(product, quantity))]

\* Array.prototype.reduce from index i on, with accumulator total.
RECURSIVE reduceSubtotals(_, _, _)
reduceSubtotals(its, i, total) ==
    IF i > Len(its) THEN total
    ELSE reduceSubtotals(its, i + 1, total + OrderItem_getSubtotal(its[i]))

\* Order.getTotal: this.items.reduce((total, item) => total + subtotal, 0).
Order_getTotal(o) == reduceSubtotals(o.items, 1, 0)

\* Product.getInfo, OrderItem.getInfo, Order.getInfo.
Product_getInfo(p) == [id |-> p.id, name |-> p.name, price |-> p.price]
OrderItem_getInfo(item) ==
    [product |-> Product_getInfo(item.product), quantity |-> item.quantity,
     subtotal |-> OrderItem_getSubtotal(item)]
Order_getInfo(o) ==
    [id |-> o.id, customer |-> o.customerName,
     items |-> [i \in 1..Len(o.items) |-> OrderItem_getInfo(o.items[i])],
     total |-> Order_getTotal(o), status |-> o.status]

\* OrderValidator.validate of index03.js: identity fields, then item presence.
ItemsOrderValidator_validate(o) ==
    IF Falsy(o.id) \/ Falsy(o.customerName)
    THEN "Order must have id and customer name"
    ELSE IF Len(o.items) = 0
    THEN "Order must have at least one item"
    ELSE ok

\* total * 0.1 and total * 0.05, exact on the sums of prices in cents.
TimesTenth(total) == total \div 10
TimesTwentieth(total) == total \div 20

\* Mutant of calculateDiscount: the 200 tier tested before the 500 tier.
DiscountCalculator_calculateDiscount_LowTierFirst(o) ==
    LET total == Order_getTotal(o)
    IN IF total > Money(200, 0) THEN TimesTwentieth(total)
       ELSE IF total > Money(500, 0) THEN TimesTenth(total)
       ELSE 0

\* Mutant of calculateDiscount: the tier tests written `>=`.
DiscountCalculator_calculateDiscount_Inclusive(o) ==
    LET total == Order_getTotal(o)
    IN IF total >= Money(500, 0) THEN TimesTenth(total)
       ELSE IF total >= Money(200, 0) THEN TimesTwentieth(total)
       ELSE 0

\* DiscountCalculator.calculateDiscount.
DiscountCalculator_calculateDiscount(o) ==
    LET total == Order_getTotal(o)
    IN IF total > Money(500, 0) THEN TimesTenth(total)
       ELSE IF total > Money(200, 0) THEN TimesTwentieth(total)
       ELSE 0

notItemsVars == <<paymentVars, orderVars>>

\* A caller invokes order.addItem(product, quantity); it returns the order.
AddItem ==
    /\ order.status # "none"
    /\ Len(order.items) < MaxItems
    /\ \E product \in Products, quantity \in Quantities :
          /\ order' = Order_addItem(order, product, quantity)
          /\ call' = [op |-> "addItem", product |-> product.id, quantity |-> quantity]
          /\ outcome' = [error |-> ok, value |-> <<order'>>]
    /\ UNCHANGED notItemsVars

\* Mutant of finalizeOrder: the status set before validate is called.
OrderService_finalizeOrder_StatusFirst(o) ==
    LET e == ItemsOrderValidator_validate(o)
        discount == DiscountCalculator_calculateDiscount(o)
        total == Order_getTotal(o)
        finalTotal == total - discount
        completed == [o EXCEPT !.status = "completed"]
    IN /\ call' = [op |-> "finalizeOrder"]
       /\ order' = completed
       /\ outcome' = IF e # ok THEN [error |-> e, value |-> null]
                     ELSE [error |-> ok,
                           value |-> <<[order |-> Order_getInfo(completed),
                                        discount |-> discount, total |-> total,
                                        finalTotal |-> finalTotal]>>]

\* OrderService.finalizeOrder: validate (a throw ends the call), compute the
\* discount, the total and the final total, set the status, return the result.
OrderService_finalizeOrder(o) ==
    LET e == ItemsOrderValidator_validate(o)
        discount == DiscountCalculator_calculateDiscount(o)
        total == Order_getTotal(o)
        finalTotal == total - discount
        completed == [o EXCEPT !.status = "completed"]
    IN /\ call' = [op |-> "finalizeOrder"]
       /\ IF e # ok
          THEN /\ outcome' = [error |-> e, value |-> null]
               /\ order' = o
          ELSE /\ order' = completed
               /\ outcome' = [error |-> ok,
                              value |-> <<[order |-> Order_getInfo(completed),
                                           discount |-> discount, total |-> total,
                                           finalTotal |-> finalTotal]>>]

FinalizeOrder ==
    /\ order.status # "none"
    /\ OrderService_finalizeOrder(order)
    /\ UNCHANGED notItemsVars

\* The identifiers and names orderService.createOrder(id, customerName) is
\* called with.
ItemsIds == {"", "ORD-001"}
ItemsCustomerNames == {"", "Maria Santos"}

\* OrderService.createOrder(id, customerName) has returned the new order.
InitItems ==
    /\ order \in {ItemsOrder(id, customerName) :
                     id \in ItemsIds, customerName \in ItemsCustomerNames}
    /\ call = [op |-> "createOrder"]
    /\ outcome = [error |-> ok, value |-> <<order>>]
    /\ status = [p \in Payments |-> "pending"]
    /\ processedAt = [p \in Payments |-> null]
    /\ payments = <<>>
    /\ now = 0
    /\ pc = idle
    /\ validatorKind = "OrderValidator"
    /\ repositoryKind = "OrderRepository"
    /\ orders = <<>>
    /\ console = <<>>

NextItems ==
    \/ AddItem
    \/ FinalizeOrder

SpecItems == InitItems /\ [][NextItems]_vars

(***************************************************************************)
(* The validate methods applied to drawn orders                            *)
(***************************************************************************)

\* Bound of the drawn orders: items of an order of index03.js.
MaxValidatedItems == 2

ValidatedIds == {undefined, "", "ORD-001"}
ValidatedNames == {undefined, "", "Ana Lima"}
ValidatedItemLists == {notAnArray, Array(<<>>), Array(<<"Produto E">>)}
ValidatedTotals == {-1, 0, 1, 150, MAX_TOTAL, MAX_TOTAL + 1, 15000}

\* The orders of index03.js with at most n items.
RECURSIVE ItemSequences(_)
ItemSequences(n) ==
    IF n = 0 THEN {<<>>}
    ELSE ItemSequences(n - 1) \cup
         {Append(its, OrderItem(product, quantity)) :
             its \in {s \in ItemSequences(n - 1) : Len(s) = n - 1},
             product \in Products, quantity \in Quantities}

\* validator.validate(order) on an OrderValidator or StrictOrderValidator of
\* part_000; the order is left as it is. Each behaviour validates one drawn
\* order: validate keeps no state from one call to the next.
ValidateOrder ==
    /\ call = noCall
    /\ \E kind \in ValidatorKinds, id \in ValidatedIds, customerName \in ValidatedNames,
          items \in ValidatedItemLists, total \in ValidatedTotals :
          LET o == Order(id, customerName, items, total)
          IN /\ call' = [op |-> "validate", kind |-> kind, order |-> o]
             /\ outcome' = [error |-> validate(kind, o), value |-> null]
    /\ UNCHANGED <<paymentVars, orderVars, order>>

\* validator.validate(order) on the OrderValidator of index03.js.
ValidateItemsOrder ==
    /\ call = noCall
    /\ \E id \in ValidatedIds, customerName \in ValidatedNames,
          its \in ItemSequences(MaxValidatedItems) :
          LET o == [ItemsOrder(id, customerName) EXCEPT !.items = its]
          IN /\ call' = [op |-> "validate", kind |-> "ItemsOrderValidator", order |-> o]
             /\ outcome' = [error |-> ItemsOrderValidator_validate(o), value |-> null]
    /\ UNCHANGED <<paymentVars, orderVars, order>>

InitValidators ==
    /\ call = noCall
    /\ outcome = noOutcome
    /\ status = [p \in Payments |-> "pending"]
    /\ processedAt = [p \in Payments |-> null]
    /\ payments = <<>>
    /\ now = 0
    /\ pc = idle
    /\ validatorKind = "OrderValidator"
    /\ repositoryKind = "OrderRepository"
    /\ orders = <<>>
    /\ console = <<>>
    /\ order = noOrder

NextValidators ==
    \/ ValidateOrder
    \/ ValidateItemsOrder

SpecValidators == InitValidators /\ [][NextValidators]_vars

(***************************************************************************)
(* The claims                                                              *)
(***************************************************************************)

\* C1: a payment's status only ever moves pending -> processing -> completed,
\* under any sequence of process(), complete() and processPayment() calls:
\* no step skips processing and no step moves backwards.
C1_StatusStrictlySequential ==
    [][\A p \in Payments :
          \/ status'[p] = status[p]
          \/ status[p] = "pending" /\ status'[p] = "processing"
          \/ status[p] = "processing" /\ status'[p] = "completed"]_vars

\* C2: processedAt is set exactly once, at the transition into completed: it
\* is null whenever the status is not completed, and once set no later call
\* overwrites it.
C2_TimestampSetOnce ==
    [][\A p \in Payments :
          /\ status'[p] # "completed" => processedAt'[p] = null
          /\ processedAt[p] # null => processedAt'[p] = processedAt[p]]_vars


\* C3: after any earlier createOrder calls, a createOrder with non-empty id,
\* non-empty name, at least one item and total > 0 succeeds under every
\* validator and repository, and getOrder(id) then returns the order that
\* createOrder returned, field for field.
C3_CreatedOrderRetrievable ==
    (/\ call.op = "createOrder"
     /\ ~Falsy(call.id) /\ ~Falsy(call.customerName)
     /\ call.items.isArray /\ Len(call.items.elems) >= 1
     /\ call.total > 0)
    => /\ outcome.error = ok
       /\ outcome.value = <<CalledOrder>>
       /\ findById(orders, call.id) = outcome.value

\* C5: a createOrder whose validator fails reports that failure to the caller
\* and leaves the repository as it was (findAll and the save log unchanged),
\* and every stored order passes the service's validator.
C5_FailedCreateLeavesRepository ==
    /\ [](\A i \in 1..Len(orders) : validate(validatorKind, orders[i]) = ok)
    /\ [][call'.op = "createOrder" =>
            /\ outcome'.error = validate(validatorKind, CalledOrder')
            /\ outcome'.error # ok =>
                 /\ findAll(orders') = findAll(orders)
                 /\ console' = console
                 /\ outcome'.value = null]_vars

\* C5 witness: a failed createOrder on a repository that already holds an order.
C5_Witness ==
    /\ call.op = "createOrder"
    /\ outcome.error # ok
    /\ Len(orders) >= 1

\* C9: no two orders stored in a repository have the same identifier.
C9_UniqueIdentifiers ==
    \A i, j \in 1..Len(orders) : i # j => orders[i].id # orders[j].id


\* C4 as stated: every validator rejects an order whose identifier or
\* customer name is empty or absent, whose item collection is empty, or whose
\* total (stored, or getTotal() in index03.js) is <= 0.
C4_EveryValidatorRejectsInvalid ==
    call.op = "validate" =>
        LET o == call.order
        IN IF call.kind = "ItemsOrderValidator"
           THEN (\/ Falsy(o.id) \/ Falsy(o.customerName)
                 \/ Len(o.items) = 0
                 \/ Order_getTotal(o) <= 0) => outcome.error # ok
           ELSE (\/ Falsy(o.id) \/ Falsy(o.customerName)
                 \/ ~o.items.isArray \/ Len(o.items.elems) = 0
                 \/ o.total <= 0) => outcome.error # ok

\* C4 amended: OrderValidator and StrictOrderValidator of the order pipeline
\* reject an order whose identifier or name is empty or absent, whose items
\* are empty (or no array), or whose total is <= 0; the OrderValidator of
\* index03.js rejects an empty or absent identifier or name and an empty item
\* list, and accepts every other order whatever its getTotal().
C4_ValidatorsRejectInvalid ==
    call.op = "validate" =>
        LET o == call.order
        IN IF call.kind = "ItemsOrderValidator"
           THEN outcome.error # ok <=>
                    (Falsy(o.id) \/ Falsy(o.customerName) \/ Len(o.items) = 0)
           ELSE (\/ Falsy(o.id) \/ Falsy(o.customerName)
                 \/ ~o.items.isArray \/ Len(o.items.elems) = 0
                 \/ o.total <= 0) => outcome.error # ok

\* C4 witness: StrictOrderValidator has rejected an order that is valid but
\* for its total of 0.
C4_Witness ==
    /\ call.op = "validate"
    /\ call.kind = "StrictOrderValidator"
    /\ ~Falsy(call.order.id) /\ ~Falsy(call.order.customerName)
    /\ call.order.items.isArray /\ Len(call.order.items.elems) >= 1
    /\ call.order.total = 0
    /\ outcome.error = "Order total must be greater than zero"

\* C6: on an order with id, customer name and at least one item,
\* StrictOrderValidator fails and OrderValidator succeeds when total > 10000,
\* and both succeed when 0 < total <= 10000.
C6_StrictCeiling ==
    (/\ call.op = "validate"
     /\ call.kind \in ValidatorKinds
     /\ ~Falsy(call.order.id) /\ ~Falsy(call.order.customerName)
     /\ call.order.items.isArray /\ Len(call.order.items.elems) >= 1)
    => LET o == call.order
       IN /\ o.total > 10000 =>
                /\ StrictOrderValidator_validate(o) # ok
                /\ OrderValidator_validate(o) = ok
                /\ outcome.error = ok <=> call.kind = "OrderValidator"
          /\ (0 < o.total /\ o.total <= 10000) =>
                /\ StrictOrderValidator_validate(o) = ok
                /\ OrderValidator_validate(o) = ok
                /\ outcome.error = ok

\* C6 witness: StrictOrderValidator has accepted a total of exactly 10000.
C6_Witness ==
    /\ call.op = "validate"
    /\ call.kind = "StrictOrderValidator"
    /\ call.order.total = 10000
    /\ outcome.error = ok

\* The sum over the items of price x quantity.
RECURSIVE SumPriceTimesQuantity(_)
SumPriceTimesQuantity(its) ==
    IF its = <<>> THEN 0
    ELSE Head(its).product.price * Head(its).quantity + SumPriceTimesQuantity(Tail(its))

\* The order of main: 2500 x 1, 50 x 2, 150 x 1.
ExampleItems == <<OrderItem(Notebook, 1), OrderItem(Mouse, 2), OrderItem(Teclado, 1)>>

\* C7 as stated: for every order built by addItem calls, getTotal() is the
\* sum of price x quantity, calculateDiscount is 10% of it above 500, else 5%
\* of it above 200, else 0, and finalizeOrder returns finalTotal = total -
\* discount; the order of main gives 2700, 270 and 2430.
C7_TieredDiscountExample2700 ==
    LET total == SumPriceTimesQuantity(order.items)
        discount == DiscountCalculator_calculateDiscount(order)
    IN /\ Order_getTotal(order) = total
       /\ total > Money(500, 0) => 10 * discount = total
       /\ (total > Money(200, 0) /\ total <= Money(500, 0)) => 20 * discount = total
       /\ total <= Money(200, 0) => discount = 0
       /\ (call.op = "finalizeOrder" /\ outcome.error = ok) =>
             /\ outcome.value[1].total = total
             /\ outcome.value[1].discount = discount
             /\ outcome.value[1].finalTotal = total - discount
       /\ order.items = ExampleItems =>
             /\ total = Money(2700, 0)
             /\ discount = Money(270, 0)
             /\ (call.op = "finalizeOrder" /\ outcome.error = ok) =>
                   outcome.value[1].finalTotal = Money(2430, 0)

\* C7 amended: the same tiers and finalTotal = total - discount, and the
\* order of main (2500 x 1, 50 x 2, 150 x 1) gives total 2750, discount 275
\* and finalTotal 2475.
C7_TieredDiscount ==
    LET total == SumPriceTimesQuantity(order.items)
        discount == DiscountCalculator_calculateDiscount(order)
    IN /\ Order_getTotal(order) = total
       /\ total > Money(500, 0) => 10 * discount = total
       /\ (total > Money(200, 0) /\ total <= Money(500, 0)) => 20 * discount = total
       /\ total <= Money(200, 0) => discount = 0
       /\ (call.op = "finalizeOrder" /\ outcome.error = ok) =>
             /\ outcome.value[1].total = total
             /\ outcome.value[1].discount = discount
             /\ outcome.value[1].finalTotal = total - discount
       /\ order.items = ExampleItems =>
             /\ total = Money(2750, 0)
             /\ discount = Money(275, 0)
             /\ (call.op = "finalizeOrder" /\ outcome.error = ok) =>
                   outcome.value[1].finalTotal = Money(2475, 0)

\* C7 witness: the order of main, finalized.
C7_Witness ==
    /\ order.items = ExampleItems
    /\ call.op = "finalizeOrder"
    /\ outcome.error = ok
    /\ outcome.value[1].finalTotal = Money(2475, 0)

\* C8 as stated: a total of exactly 500.00 or exactly 200.00 gets discount 0,
\* 500.01 gets 10% of the total (50.001) and 200.01 gets 5% of the total
\* (10.0005).
C8_BoundaryDiscountZero ==
    LET total == Order_getTotal(order)
        discount == DiscountCalculator_calculateDiscount(order)
    IN /\ total = Money(500, 0) => discount = 0
       /\ total = Money(200, 0) => discount = 0
       /\ total = Money(500, 1) => discount = 500010
       /\ total = Money(200, 1) => discount = 100005

\* C8 amended: each tier test is strict, so a total of exactly 500.00 stays in
\* the 5% tier (discount 25.00, not 10% and not 0) and exactly 200.00 gets 0;
\* 500.01 gets 10% of the total (50.001) and 200.01 gets 5% (10.0005).
C8_TierBoundaries ==
    LET total == Order_getTotal(order)
        discount == DiscountCalculator_calculateDiscount(order)
    IN /\ total = Money(500, 0) => discount = Money(25, 0)
       /\ total = Money(200, 0) => discount = 0
       /\ total = Money(500, 1) => discount = 500010
       /\ total = Money(200, 1) => discount = 100005
       /\ (call.op = "finalizeOrder" /\ outcome.error = ok
           /\ outcome.value[1].total = Money(500, 0)) =>
             outcome.value[1].discount = Money(25, 0)

\* C8 witness: an order totalling exactly 500.00 finalized with discount 25.00.
C8_Witness ==
    /\ call.op = "finalizeOrder"
    /\ outcome.error = ok
    /\ outcome.value[1].total = Money(500, 0)
    /\ outcome.value[1].discount = Money(25, 0)

\* C10: the status of an order of index03.js starts as pending, becomes
\* completed only in a finalizeOrder call whose validation succeeded, never
\* returns to pending under addItem and finalizeOrder calls, and a
\* finalizeOrder whose validation fails leaves status and items unchanged.
C10_StatusOneDirectional ==
    /\ order.status = "pending"
    /\ [][/\ order.status = "completed" => order'.status = "completed"
          /\ (order.status = "pending" /\ order'.status = "completed") =>
                /\ call'.op = "finalizeOrder"
                /\ outcome'.error = ok
                /\ ItemsOrderValidator_validate(order) = ok
                /\ order'.items = order.items
          /\ (call'.op = "finalizeOrder" /\ outcome'.error # ok) =>
                /\ order'.status = order.status
                /\ order'.items = order.items]_vars

\* C10 witness: a completed order after a later addItem call.
C10_Witness ==
    /\ order.status = "completed"
    /\ call.op = "addItem"

====
